---- MODULE Spec2Model ----
(***************************************************************************)
(* A model of app.py: a Streamlit script that is re-executed from top to   *)
(* bottom on every user interaction.  One action of the model is one       *)
(* execution of the script.  Python strings are sequences of one-character *)
(* strings, so that strip, replace, join, str and f-string formatting are  *)
(* modelled by what they do.                                               *)
(***************************************************************************)
EXTENDS Integers, Sequences, FiniteSets, TLC

VARIABLES
    config_txt,     \* config.txt: [exists |-> BOOLEAN, content |-> text]
    environ,        \* os.environ.get("WEBHOOK_URL"): None or a text
    WEBHOOK_URL,    \* the module-level constant of the last script run
    view,           \* what the last script run rendered
    app_mode,       \* the sidebar radio's selection in the last script run
    session_state,  \* st.session_state of the browser session
    posted,         \* the payloads handed to requests.post, in order
    fault,          \* the exception that ended the last script run, if any
    table,          \* the rows of commute_logs, in insertion order
    feedback,       \* st.warning / st.success shown by the last script run
    limit,          \* the limit of the last fetch_commute_logs call
    logs,           \* the result of the last fetch_commute_logs call
    csv_data,       \* the result of the last build_csv call
    summary         \* the result of the last fetch_commute_summary call

vars == <<config_txt, environ, WEBHOOK_URL, view, app_mode, session_state,
          posted, fault, table, feedback, limit, logs, csv_data, summary>>

-----------------------------------------------------------------------------
(* Bounds of the model.                                                    *)

MaxFileLen == 3
MaxSubmits == 2
MaxRows == 2
MaxLimit == 4
MaxCsvRows == 2
MaxStoredRows == 3

-----------------------------------------------------------------------------
(* Python values and string methods.                                       *)

None == <<"None">>

Whitespace == {" ", "\n", "\t"}

RECURSIVE lstrip(_)
lstrip(s) ==
    IF s # << >> /\ Head(s) \in Whitespace THEN lstrip(Tail(s)) ELSE s

RECURSIVE rstrip(_)
rstrip(s) ==
    IF s # << >> /\ s[Len(s)] \in Whitespace
    THEN rstrip(SubSeq(s, 1, Len(s) - 1))
    ELSE s

strip(s) == rstrip(lstrip(s))

startswith(s, c) == s # << >> /\ s[1] = c

replace(s, old, new) == [i \in 1..Len(s) |-> IF s[i] = old THEN new ELSE s[i]]

RECURSIVE join(_, _)
join(sep, parts) ==
    IF parts = << >> THEN << >>
    ELSE IF Len(parts) = 1 THEN parts[1]
    ELSE parts[1] \o sep \o join(sep, Tail(parts))

Digits == <<"0", "1", "2", "3", "4", "5", "6", "7", "8", "9">>

Digit(d) == Digits[d + 1]

RECURSIVE str(_)
str(n) == IF n < 10 THEN <<Digit(n)>> ELSE str(n \div 10) \o <<Digit(n % 10)>>

RECURSIVE zfill(_, _)
zfill(s, width) == IF Len(s) >= width THEN s ELSE zfill(<<"0">> \o s, width)

-----------------------------------------------------------------------------
(* Webhook URL resolution, executed at the top of every script run.        *)

load_webhook_url(file, env) ==
    LET content == strip(file.content)
    IN  IF file.exists /\ content # << >> /\ ~startswith(content, "#")
        THEN content
        ELSE IF env # None /\ env # << >> THEN env
        ELSE None

Unconfigured(url) == url = None \/ url = << >>

-----------------------------------------------------------------------------
(* The chat view.                                                          *)

SessionIds == {"uuid-1", "uuid-2"}

UserInputs == {<<"h", "i">>}

\* What requests.post and the response's accessors can yield: no response at
\* all (requests raises ConnectionError), or a response with a status code,
\* a body, and the outcome of parsing the body as JSON.
Response(status_code, text, json_valid, has_output, output) ==
    [received |-> TRUE, status_code |-> status_code, text |-> text,
     json_valid |-> json_valid, has_output |-> has_output, output |-> output]

NoResponse ==
    [received |-> FALSE, status_code |-> 0, text |-> << >>,
     json_valid |-> FALSE, has_output |-> FALSE, output |-> << >>]

Outcomes ==
    { Response(200, <<"{", "\"", "o", "u", "t", "p", "u", "t", "\"", ":", "\"", "y", "o", "\"", "}">>, TRUE, TRUE, <<"y", "o">>),
      Response(200, <<"{", "}">>, TRUE, FALSE, << >>),
      Response(200, <<"o", "o", "p", "s">>, FALSE, FALSE, << >>),
      Response(500, <<"i", "n", "t", "e", "r", "n", "a", "l", " ", "e", "r", "r", "o", "r">>, FALSE, FALSE, << >>),
      Response(404, << >>, FALSE, FALSE, << >>),
      NoResponse }

ErrorPrefix == <<"E", "r", "r", "o", "r", ":", " ">>

ErrorSeparator == <<" ", "-", " ">>

Returned(value) == [raised |-> "none", value |-> value]

Raised(exception) == [raised |-> exception, value |-> << >>]

Payload(session_id, message) == [sessionId |-> session_id, chatInput |-> message]

StatusOk(status_code) == status_code = 200

\* A variant that calls response.raise_for_status() on a non-200 response.
send_message_to_llm_raising(session_id, message, outcome) ==
    IF ~outcome.received THEN Raised("ConnectionError")
    ELSE IF StatusOk(outcome.status_code)
    THEN IF ~outcome.json_valid THEN Raised("JSONDecodeError")
         ELSE IF ~outcome.has_output THEN Raised("KeyError")
         ELSE Returned(outcome.output)
    ELSE Raised("HTTPError")

send_message_to_llm(session_id, message, outcome) ==
    IF ~outcome.received THEN Raised("ConnectionError")
    ELSE IF StatusOk(outcome.status_code)
    THEN IF ~outcome.json_valid THEN Raised("JSONDecodeError")
         ELSE IF ~outcome.has_output THEN Raised("KeyError")
         ELSE Returned(outcome.output)
    ELSE Returned(ErrorPrefix \o str(outcome.status_code) \o ErrorSeparator
                  \o outcome.text)

Message(role, content) == [role |-> role, content |-> content]

EmptySessionState == [keys |-> {}, messages |-> << >>, session_id |-> ""]

\* A variant that generates a session id on every run.
initialize_regenerating(ss, new_id) ==
    [keys |-> ss.keys \cup {"messages", "session_id"},
     messages |-> IF "messages" \in ss.keys THEN ss.messages ELSE << >>,
     session_id |-> new_id]

initialize(ss, new_id) ==
    [keys |-> ss.keys \cup {"messages", "session_id"},
     messages |-> IF "messages" \in ss.keys THEN ss.messages ELSE << >>,
     session_id |-> IF "session_id" \in ss.keys THEN ss.session_id ELSE new_id]

append_message(ss, message) ==
    [ss EXCEPT !.messages = Append(ss.messages, message)]

\* The script stops at st.stop(): nothing below line 36 runs.
Halt ==
    LET url == load_webhook_url(config_txt, environ)
    IN  /\ Unconfigured(url)
        /\ WEBHOOK_URL' = url
        /\ view' = "halt"
        /\ fault' = "none"
        /\ feedback' = "none"
        /\ UNCHANGED <<config_txt, environ, app_mode, session_state, posted,
                       table, limit, logs, csv_data, summary>>

\* A run of main() in the "LLM Chat" mode with no chat input.
ChatRender ==
    LET url == load_webhook_url(config_txt, environ)
    IN  /\ ~Unconfigured(url)
        /\ WEBHOOK_URL' = url
        /\ app_mode' = "LLM Chat"
        /\ \E new_id \in SessionIds :
               session_state' = initialize(session_state, new_id)
        /\ view' = "chat"
        /\ fault' = "none"
        /\ feedback' = "none"
        /\ UNCHANGED <<config_txt, environ, posted, table, limit, logs,
                       csv_data, summary>>

\* A run of main() in the "LLM Chat" mode with a chat input.
ChatSubmit(user_input, outcome) ==
    LET url == load_webhook_url(config_txt, environ)
    IN  /\ ~Unconfigured(url)
        /\ Len(posted) < MaxSubmits
        /\ WEBHOOK_URL' = url
        /\ app_mode' = "LLM Chat"
        /\ \E new_id \in SessionIds :
             LET ss1 == initialize(session_state, new_id)
                 ss2 == append_message(ss1, Message("user", user_input))
                 r   == send_message_to_llm(ss2.session_id, user_input, outcome)
             IN  /\ posted' = Append(posted, Payload(ss2.session_id, user_input))
                 /\ fault' = r.raised
                 /\ session_state' =
                        IF r.raised = "none"
                        THEN append_message(ss2, Message("assistant", r.value))
                        ELSE ss2
        /\ view' = "chat"
        /\ feedback' = "none"
        /\ UNCHANGED <<config_txt, environ, table, limit, logs, csv_data,
                       summary>>

-----------------------------------------------------------------------------
(* The commute_logs table and its queries.                                 *)

isoformat(d) ==
    zfill(str(d.year), 4) \o <<"-">> \o zfill(str(d.month), 2) \o <<"-">>
        \o zfill(str(d.day), 2)

strftime_HM(t) == zfill(str(t.hour), 2) \o <<":">> \o zfill(str(t.minute), 2)

\* datetime.isoformat(timespec="seconds")
datetime_isoformat(dt) ==
    isoformat(dt) \o <<"T">> \o strftime_HM(dt) \o <<":">>
        \o zfill(str(dt.second), 2)

\* AUTOINCREMENT: one more than the largest id ever assigned (rows are never
\* deleted, so that is the id of the last row).
next_id(tbl) == IF tbl = << >> THEN 1 ELSE tbl[Len(tbl)].id + 1

insert_commute_log(tbl, travel_date, travel_time, route_name, duration_minutes, notes, created_at) ==
    Append(tbl, [id |-> next_id(tbl),
                 travel_date |-> travel_date,
                 travel_time |-> travel_time,
                 route_name |-> route_name,
                 duration_minutes |-> duration_minutes,
                 notes |-> notes,
                 created_at |-> created_at])

\* The code points of the characters that occur in stored dates and times.
CodePoints ==
    [c \in {"-", ":"} \cup {Digits[k] : k \in 1..10} |->
        CASE c = "-" -> 45
          [] c = ":" -> 58
          [] OTHER -> 47 + (CHOOSE k \in 1..10 : Digits[k] = c)]

ord(c) == CodePoints[c]

\* SQLite's BINARY collation of TEXT values: memcmp, then the shorter first.
RECURSIVE compare_from(_, _, _)
compare_from(a, b, i) ==
    IF i > Len(a) /\ i > Len(b) THEN 0
    ELSE IF i > Len(a) THEN -1
    ELSE IF i > Len(b) THEN 1
    ELSE IF ord(a[i]) < ord(b[i]) THEN -1
    ELSE IF ord(a[i]) > ord(b[i]) THEN 1
    ELSE compare_from(a, b, i + 1)

text_compare(a, b) == compare_from(a, b, 1)

\* A variant that breaks ties by id ascending.
logs_order_before_id_asc(r1, r2) ==
    LET by_date == text_compare(r1.travel_date, r2.travel_date)
        by_time == text_compare(r1.travel_time, r2.travel_time)
    IN  \/ by_date > 0
        \/ by_date = 0 /\ by_time > 0
        \/ by_date = 0 /\ by_time = 0 /\ r1.id < r2.id

\* ORDER BY travel_date DESC, travel_time DESC, id DESC
logs_order_before(r1, r2) ==
    LET by_date == text_compare(r1.travel_date, r2.travel_date)
        by_time == text_compare(r1.travel_time, r2.travel_time)
    IN  \/ by_date > 0
        \/ by_date = 0 /\ by_time > 0
        \/ by_date = 0 /\ by_time = 0 /\ r1.id > r2.id

RECURSIVE sorted_insert(_, _)
sorted_insert(sorted, r) ==
    IF sorted = << >> THEN <<r>>
    ELSE IF logs_order_before(r, Head(sorted)) THEN <<r>> \o sorted
    ELSE <<Head(sorted)>> \o sorted_insert(Tail(sorted), r)

RECURSIVE order_logs(_)
order_logs(tbl) ==
    IF tbl = << >> THEN << >>
    ELSE sorted_insert(order_logs(SubSeq(tbl, 1, Len(tbl) - 1)), tbl[Len(tbl)])

\* A variant that keeps one row too many.
sql_limit_inclusive(rows, n) ==
    IF n < 0 \/ n + 1 >= Len(rows) THEN rows ELSE SubSeq(rows, 1, n + 1)

\* LIMIT ?: a negative limit means no limit.
sql_limit(rows, n) ==
    IF n < 0 \/ n >= Len(rows) THEN rows ELSE SubSeq(rows, 1, n)

\* The SELECT list of fetch_commute_logs: every column but id.
log_columns(r) ==
    [travel_date |-> r.travel_date,
     travel_time |-> r.travel_time,
     route_name |-> r.route_name,
     duration_minutes |-> r.duration_minutes,
     notes |-> r.notes,
     created_at |-> r.created_at]

fetch_commute_logs(tbl, n) ==
    LET rows == sql_limit(order_logs(tbl), n)
    IN  [i \in 1..Len(rows) |-> log_columns(rows[i])]

DefaultLimit == 50

RECURSIVE count_trips(_, _)
count_trips(tbl, route_name) ==
    IF tbl = << >> THEN 0
    ELSE (IF Head(tbl).route_name = route_name THEN 1 ELSE 0)
             + count_trips(Tail(tbl), route_name)

RECURSIVE sum_minutes(_, _)
sum_minutes(tbl, route_name) ==
    IF tbl = << >> THEN 0
    ELSE (IF Head(tbl).route_name = route_name
          THEN Head(tbl).duration_minutes ELSE 0)
             + sum_minutes(Tail(tbl), route_name)

\* A variant that truncates the average to one decimal.
round_avg_truncating(total, trips) == (10 * total) \div trips

\* ROUND(AVG(duration_minutes), 1), held in tenths of a minute: SQLite rounds
\* halves away from zero.
round_avg(total, trips) == (20 * total + trips) \div (2 * trips)

summary_row(tbl, route_name) ==
    [route_name |-> route_name,
     trips |-> count_trips(tbl, route_name),
     total_minutes |-> sum_minutes(tbl, route_name),
     avg_minutes |-> round_avg(sum_minutes(tbl, route_name),
                               count_trips(tbl, route_name))]

\* GROUP BY route_name
summary_groups(tbl) ==
    {summary_row(tbl, tbl[i].route_name) : i \in 1..Len(tbl)}

\* ORDER BY total_minutes DESC, trips DESC
summary_order_before(g1, g2) ==
    \/ g1.total_minutes > g2.total_minutes
    \/ g1.total_minutes = g2.total_minutes /\ g1.trips > g2.trips

\* The results fetch_commute_summary can return: SQL leaves the order of rows
\* that tie on every ORDER BY term unspecified.
fetch_commute_summary(tbl) ==
    LET groups == summary_groups(tbl)
        n == Cardinality(groups)
    IN  {s \in [1..n -> groups] :
            /\ \A i, j \in 1..n : i # j => s[i] # s[j]
            /\ \A i, j \in 1..n : i < j => ~summary_order_before(s[j], s[i])}

Columns ==
    <<"travel_date", "travel_time", "route_name", "duration_minutes", "notes",
      "created_at">>

header ==
    <<<<"t", "r", "a", "v", "e", "l", "_", "d", "a", "t", "e">>, <<"t", "r", "a", "v", "e", "l", "_", "t", "i", "m", "e">>,
      <<"r", "o", "u", "t", "e", "_", "n", "a", "m", "e">>,
      <<"d", "u", "r", "a", "t", "i", "o", "n", "_", "m", "i", "n", "u", "t", "e", "s">>,
      <<"n", "o", "t", "e", "s">>, <<"c", "r", "e", "a", "t", "e", "d", "_", "a", "t">>>>

\* str(log.get(col, "")): duration_minutes is the one column that is an int.
str_value(log, col) ==
    IF col \notin DOMAIN log THEN << >>
    ELSE IF col = "duration_minutes" THEN str(log[col])
    ELSE log[col]

\* A variant that leaves newlines in place.
csv_field_commas_only(log, col) == replace(str_value(log, col), ",", " ")

csv_field(log, col) == replace(replace(str_value(log, col), "\n", " "), ",", " ")

csv_row(log) == [k \in 1..Len(Columns) |-> csv_field(log, Columns[k])]

build_csv(rows) ==
    join(<<"\n">>,
         <<join(<<",">>, header)>>
             \o [i \in 1..Len(rows) |-> join(<<",">>, csv_row(rows[i]))])

-----------------------------------------------------------------------------
(* The commute view.                                                       *)

Date(year, month, day) == [year |-> year, month |-> month, day |-> day]

Time(hour, minute) == [hour |-> hour, minute |-> minute]

DateInputs == {Date(2024, 1, 9), Date(2024, 1, 10)}

TimeInputs == {Time(8, 5), Time(17, 30)}

RouteInputs == {<< >>, <<" ", "\t">>, <<" ", "A", " ">>, <<"B">>}

NotesInputs == {<<" ", "n", "\n">>}

\* st.number_input(min_value=1, step=1, value=30) yields no value below
\* min_value.
min_value == 1

TypedDurations == {0, 1, 30}

\* A variant without min_value.
number_input_unbounded(lowest) == TypedDurations

number_input(lowest) == {v \in TypedDurations : v >= lowest}

Form(travel_date, travel_time, route_name, duration_minutes, notes) ==
    [travel_date |-> travel_date, travel_time |-> travel_time,
     route_name |-> route_name, duration_minutes |-> duration_minutes,
     notes |-> notes]

DefaultDuration == 30

\* Every date, time and route name with the default duration, and every
\* duration with one date and time.
Forms ==
    {Form(d, t, r, DefaultDuration, n) :
        d \in DateInputs, t \in TimeInputs, r \in RouteInputs, n \in NotesInputs}
    \cup
    {Form(Date(2024, 1, 9), Time(8, 5), r, m, n) :
        r \in RouteInputs, m \in number_input(min_value), n \in NotesInputs}

\* The forms of the whole-application specification, which varies the chat.
FewForms ==
    {Form(Date(2024, 1, 9), Time(8, 5), r, DefaultDuration, << >>) :
        r \in {<<" ">>, <<"A">>}}

Clock ==
    {[year |-> 2024, month |-> 1, day |-> 10, hour |-> 18, minute |-> 0,
      second |-> 7]}

\* A variant that tests the raw field.
route_name_missing_unstripped(route_name) == route_name = << >>

route_name_missing(route_name) == strip(route_name) = << >>

\* Lines 166-187: the recent logs, their CSV and the summary, from the table
\* as the run leaves it.
RenderTables(tbl) ==
    LET recent == fetch_commute_logs(tbl, DefaultLimit)
    IN  /\ limit' = DefaultLimit
        /\ logs' = recent
        /\ csv_data' = IF recent # << >> THEN build_csv(recent) ELSE csv_data
        /\ summary' \in fetch_commute_summary(tbl)

\* A run of main() in the "Commute Tracker" mode with the form not submitted.
CommuteRender ==
    LET url == load_webhook_url(config_txt, environ)
    IN  /\ ~Unconfigured(url)
        /\ WEBHOOK_URL' = url
        /\ app_mode' = "Commute Tracker"
        /\ view' = "commute"
        /\ fault' = "none"
        /\ feedback' = "none"
        /\ table' = table
        /\ RenderTables(table)
        /\ UNCHANGED <<config_txt, environ, session_state, posted>>

\* Lines 157-163: the values the form's fields are stored as.
submit_entry(tbl, form, now) ==
    insert_commute_log(tbl,
                       isoformat(form.travel_date),
                       strftime_HM(form.travel_time),
                       strip(form.route_name),
                       form.duration_minutes,
                       strip(form.notes),
                       datetime_isoformat(now))

\* A run of main() in the "Commute Tracker" mode with the form submitted.
CommuteSubmit(form, now) ==
    LET url == load_webhook_url(config_txt, environ)
    IN  /\ ~Unconfigured(url)
        /\ WEBHOOK_URL' = url
        /\ app_mode' = "Commute Tracker"
        /\ view' = "commute"
        /\ fault' = "none"
        /\ IF route_name_missing(form.route_name)
           THEN /\ feedback' = "warning"
                /\ table' = table
                /\ RenderTables(table)
           ELSE /\ Len(table) < MaxRows
                /\ feedback' = "success"
                /\ table' = submit_entry(table, form, now)
                /\ RenderTables(submit_entry(table, form, now))
        /\ UNCHANGED <<config_txt, environ, session_state, posted>>

-----------------------------------------------------------------------------
(* The whole application: every script run, with the chat's inputs varied. *)

ConfiguredFile == [exists |-> TRUE, content |-> <<"u", "\n">>]

MissingFile == [exists |-> FALSE, content |-> << >>]

InitIdle ==
    /\ WEBHOOK_URL = None
    /\ view = "none"
    /\ app_mode = "LLM Chat"
    /\ session_state = EmptySessionState
    /\ posted = << >>
    /\ fault = "none"
    /\ table = << >>
    /\ feedback = "none"
    /\ limit = DefaultLimit
    /\ logs = << >>
    /\ csv_data = None
    /\ summary = << >>

Init ==
    /\ config_txt \in {ConfiguredFile, MissingFile}
    /\ environ = None
    /\ InitIdle

Next ==
    \/ Halt
    \/ ChatRender
    \/ \E user_input \in UserInputs, outcome \in Outcomes :
           ChatSubmit(user_input, outcome)
    \/ CommuteRender
    \/ \E form \in FewForms, now \in Clock : CommuteSubmit(form, now)

Spec == Init /\ [][Next]_vars

(* The commute view alone, with the form's inputs varied.                  *)

InitCommute ==
    /\ config_txt = ConfiguredFile
    /\ environ = None
    /\ InitIdle

NextCommute ==
    \/ CommuteRender
    \/ \E form \in Forms, now \in Clock : CommuteSubmit(form, now)

SpecCommute == InitCommute /\ [][NextCommute]_vars

(* Startup alone, with the configuration's inputs varied.                   *)

FileChars == {"#", "u", "\n", " "}

FileContents ==
    UNION {[1..n -> FileChars] : n \in 0..MaxFileLen}

InitConfig ==
    /\ config_txt \in
           {MissingFile} \cup {[exists |-> TRUE, content |-> c] : c \in FileContents}
    /\ environ \in {None, << >>, <<"e">>}
    /\ InitIdle

NextConfig ==
    \/ Halt
    \/ ChatRender
    \/ CommuteRender

SpecConfig == InitConfig /\ [][NextConfig]_vars


(* The queries and the CSV export as functions: the table or the rows are  *)
(* drawn at the start, and each step applies one function to them.         *)

Now == CHOOSE now \in Clock : TRUE

\* The table after the valid forms of a sequence have been submitted in order.
RECURSIVE TableOf(_)
TableOf(forms) ==
    IF forms = << >> THEN << >>
    ELSE submit_entry(TableOf(SubSeq(forms, 1, Len(forms) - 1)),
                      forms[Len(forms)], Now)

TablesOf(forms) ==
    {TableOf(fs) : fs \in UNION {[1..n -> forms] : n \in 0..MaxStoredRows}}

InitQuery ==
    /\ config_txt = ConfiguredFile
    /\ environ = None
    /\ WEBHOOK_URL = strip(ConfiguredFile.content)
    /\ view = "none"
    /\ app_mode = "Commute Tracker"
    /\ session_state = EmptySessionState
    /\ posted = << >>
    /\ fault = "none"
    /\ feedback = "none"
    /\ csv_data = None
    /\ summary = << >>

\* Three dates at one time, and a second time on one of them.
ListForms ==
    {Form(d, Time(8, 5), <<"A">>, DefaultDuration, << >>) :
        d \in DateInputs \cup {Date(2023, 12, 31)}}
    \cup {Form(Date(2024, 1, 9), Time(17, 30), <<"A">>, DefaultDuration, << >>)}

InitList ==
    /\ InitQuery
    /\ table \in TablesOf(ListForms)
    /\ limit = 0
    /\ logs = << >>

ListRecent(n) ==
    /\ limit' = n
    /\ logs' = fetch_commute_logs(table, n)
    /\ UNCHANGED <<config_txt, environ, WEBHOOK_URL, view, app_mode,
                   session_state, posted, fault, table, feedback, csv_data,
                   summary>>

NextList == \E n \in 0..MaxLimit : ListRecent(n)

SpecList == InitList /\ [][NextList]_vars

SummaryForms ==
    {Form(Date(2024, 1, 9), Time(8, 5), r, m, << >>) :
        r \in {<<"R", "o", "u", "t", "e", "A">>, <<"R", "o", "u", "t", "e", "B">>}, m \in {20, 30, 50}}

InitSummary ==
    /\ InitQuery
    /\ table \in TablesOf(SummaryForms)
    /\ limit = 0
    /\ logs = << >>

Summarize ==
    /\ summary' \in fetch_commute_summary(table)
    /\ UNCHANGED <<config_txt, environ, WEBHOOK_URL, view, app_mode,
                   session_state, posted, fault, table, feedback, limit, logs,
                   csv_data>>

NextSummary == Summarize

SpecSummary == InitSummary /\ [][NextSummary]_vars

CsvForms ==
    {Form(Date(2024, 1, 9), Time(8, 5), r, m, n) :
        r \in {<<"A">>, <<"A", ",", "B">>}, m \in {5, DefaultDuration},
        n \in {<< >>, <<"a", ",", "b", "\n", "c">>, <<"x", "\n", ",", "\n", "y">>}}

InitCsv ==
    /\ InitQuery
    /\ \E fs \in UNION {[1..n -> CsvForms] : n \in 0..MaxCsvRows} :
           /\ table = TableOf(fs)
           /\ limit = DefaultLimit
           /\ logs = fetch_commute_logs(TableOf(fs), DefaultLimit)

ExportCsv ==
    /\ csv_data' = build_csv(logs)
    /\ UNCHANGED <<config_txt, environ, WEBHOOK_URL, view, app_mode,
                   session_state, posted, fault, table, feedback, limit, logs,
                   summary>>

NextCsv == ExportCsv

SpecCsv == InitCsv /\ [][NextCsv]_vars

-----------------------------------------------------------------------------
(* Operators the properties are stated with.                               *)

Last(s) == s[Len(s)]

IsPrefix(s, t) == Len(s) <= Len(t) /\ SubSeq(t, 1, Len(s)) = s

AllWhitespace(s) == \A i \in 1..Len(s) : s[i] \in Whitespace

\* s with its leading and trailing whitespace removed.
Trimmed(s) ==
    LET solid == {i \in 1..Len(s) : s[i] \notin Whitespace}
    IN  IF solid = {} THEN << >>
        ELSE SubSeq(s, CHOOSE i \in solid : \A j \in solid : i <= j,
                       CHOOSE i \in solid : \A j \in solid : i >= j)

\* The pieces of s between the occurrences of the character sep:
\* pieces[start] is the pieces of s from position start on.
Split(s, sep) ==
    LET pieces[start \in 1..(Len(s) + 1)] ==
            LET cuts == {i \in start..Len(s) : s[i] = sep}
            IN  IF cuts = {} THEN <<SubSeq(s, start, Len(s))>>
                ELSE LET first == CHOOSE i \in cuts : \A j \in cuts : i <= j
                     IN  <<SubSeq(s, start, first - 1)>> \o pieces[first + 1]
    IN  pieces[1]

DigitValues == [c \in {Digits[k] : k \in 1..10} |-> (CHOOSE k \in 1..10 : Digits[k] = c) - 1]

IsDigit(c) == c \in DOMAIN DigitValues

\* The number a text of decimal digits denotes.
RECURSIVE ParseNat(_)
ParseNat(s) ==
    IF s = << >> THEN 0
    ELSE 10 * ParseNat(SubSeq(s, 1, Len(s) - 1)) + DigitValues[Last(s)]

-----------------------------------------------------------------------------
(* Webhook URL resolution as the specification words it.                   *)

UrlLines(file) ==
    LET lines == Split(file.content, "\n")
    IN  IF ~file.exists THEN << >>
        ELSE SelectSeq([k \in 1..Len(lines) |-> Trimmed(lines[k])],
                       LAMBDA l : l # << >> /\ l[1] # "#")

FirstLineUrl(file, env) ==
    IF UrlLines(file) # << >> THEN UrlLines(file)[1]
    ELSE IF env # None /\ env # << >> THEN env
    ELSE None

(* C9. Webhook URL resolution as the specification words it: the URL is    *)
(* the first line of config.txt that is non-empty and not a comment; if    *)
(* the file is absent or has no such line, it is the WEBHOOK_URL           *)
(* environment variable; if neither yields a value the application halts   *)
(* and renders neither view.  The code does otherwise: it takes the whole  *)
(* stripped file, and gives the file up when its first character is '#'.   *)
C9_FirstUrlLineResolved ==
    view # "none" =>
        /\ WEBHOOK_URL = FirstLineUrl(config_txt, environ)
        /\ FirstLineUrl(config_txt, environ) = None <=> view = "halt"

-----------------------------------------------------------------------------
(* The chat view's properties, under Spec.                                 *)

Messages == session_state.messages

\* The transcript ends with the user's text and then the assistant's reply.
EndsWithExchange(messages, user_text, reply) ==
    /\ Len(messages) >= 2
    /\ messages[Len(messages) - 1] = [role |-> "user", content |-> user_text]
    /\ Last(messages) = [role |-> "assistant", content |-> reply]

\* content reads "Error: <status_code> - <body>", the status code in decimal.
IsErrorText(content, status_code, body) ==
    \E k \in 1..3 :
        /\ Len(content) = 7 + k + 3 + Len(body)
        /\ SubSeq(content, 1, 7) = <<"E", "r", "r", "o", "r", ":", " ">>
        /\ \A i \in 8..(7 + k) : IsDigit(content[i])
        /\ content[8] # "0"
        /\ ParseNat(SubSeq(content, 8, 7 + k)) = status_code
        /\ SubSeq(content, 8 + k, 10 + k) = <<" ", "-", " ">>
        /\ SubSeq(content, 11 + k, Len(content)) = body

(* C2. A chat submit whose webhook response has a status code other than   *)
(* 200 completes without raising, and leaves the transcript ending with    *)
(* the user's message followed by the assistant message                    *)
(* "Error: <status_code> - <response_body>"; status 500 with body          *)
(* "internal error" on the input "hi" gives "Error: 500 - internal error". *)
C2_NonOkReplyIsErrorText ==
    [][\A user_input \in UserInputs, outcome \in Outcomes :
          (/\ outcome.received
           /\ outcome.status_code # 200
           /\ ChatSubmit(user_input, outcome))
          => /\ fault' = "none"
             /\ Len(Messages') = Len(Messages) + 2
             /\ Last(Messages').role = "assistant"
             /\ EndsWithExchange(Messages', user_input, Last(Messages').content)
             /\ IsErrorText(Last(Messages').content, outcome.status_code,
                            outcome.text)
             /\ (outcome.status_code = 500 /\ outcome.text = <<"i", "n", "t", "e", "r", "n", "a", "l", " ", "e", "r", "r", "o", "r">>)
                    => Last(Messages').content = <<"E", "r", "r", "o", "r", ":", " ", "5", "0", "0", " ", "-", " ", "i", "n", "t", "e", "r", "n", "a", "l", " ", "e", "r", "r", "o", "r">>
      ]_vars

C2_Witness ==
    /\ fault = "none"
    /\ EndsWithExchange(Messages, <<"h", "i">>, <<"E", "r", "r", "o", "r", ":", " ", "5", "0", "0", " ", "-", " ", "i", "n", "t", "e", "r", "n", "a", "l", " ", "e", "r", "r", "o", "r">>)

(* C3. Every webhook failure during a chat submit, a non-200 response or a *)
(* failure in which no response is received, is not raised but appended to *)
(* the transcript as an assistant message after the user's message.  The   *)
(* code does this for a non-200 response only: requests.post is unguarded, *)
(* so with no response the run ends in ConnectionError and the user's      *)
(* message stays last.                                                     *)
C3_EveryFailureSurfaced ==
    [][\A user_input \in UserInputs, outcome \in Outcomes :
          (/\ ~outcome.received \/ outcome.status_code # 200
           /\ ChatSubmit(user_input, outcome))
          => /\ fault' = "none"
             /\ Last(Messages').role = "assistant"
             /\ \A i \in 1..Len(Messages') :
                    Messages'[i].role = "user" =>
                        /\ i < Len(Messages')
                        /\ Messages'[i + 1].role = "assistant"
      ]_vars

(* C4. Within one browser session, across re-renders, mode switches and    *)
(* chat submits, a session_id once generated never changes, the message    *)
(* history only grows at its end, and every webhook call carries that      *)
(* session_id.                                                             *)
C4_SessionStable ==
    [][/\ "session_id" \in session_state.keys =>
              /\ "session_id" \in session_state'.keys
              /\ session_state'.session_id = session_state.session_id
       /\ "messages" \in session_state.keys => "messages" \in session_state'.keys
       /\ IsPrefix(Messages, Messages')
       /\ IsPrefix(posted, posted')
       /\ \A i \in 1..Len(posted') :
              posted'[i].sessionId = session_state'.session_id
      ]_vars

C4_Witness ==
    /\ app_mode = "Commute Tracker"
    /\ view = "commute"
    /\ Len(Messages) >= 3
    /\ Len(posted) = 2
    /\ table # << >>
    /\ \A i \in 1..Len(posted) : posted[i].sessionId = session_state.session_id

-----------------------------------------------------------------------------
(* The commute form's properties, under SpecCommute.                       *)

NoOuterWhitespace(s) ==
    s = << >> \/ (s[1] \notin Whitespace /\ Last(s) \notin Whitespace)

\* The calendar date a stored travel_date denotes, as a number that orders
\* dates, and the minute of the day a stored travel_time denotes.
DateNumber(text) ==
    10000 * ParseNat(SubSeq(text, 1, 4)) + 100 * ParseNat(SubSeq(text, 6, 7))
        + ParseNat(SubSeq(text, 9, 10))

MinuteOfDay(text) ==
    60 * ParseNat(SubSeq(text, 1, 2)) + ParseNat(SubSeq(text, 4, 5))

\* text is the ISO 8601 form of the date d; text is the HH:MM form of t.
IsIsoDate(text, d) ==
    /\ Len(text) = 10
    /\ text[5] = "-" /\ text[8] = "-"
    /\ \A i \in {1, 2, 3, 4, 6, 7, 9, 10} : IsDigit(text[i])
    /\ DateNumber(text) = 10000 * d.year + 100 * d.month + d.day

IsHourMinute(text, t) ==
    /\ Len(text) = 5
    /\ text[3] = ":"
    /\ \A i \in {1, 2, 4, 5} : IsDigit(text[i])
    /\ MinuteOfDay(text) = 60 * t.hour + t.minute

\* The stored row r is later than the date and time of the form.
LaterThanForm(r, form) ==
    LET row_date == DateNumber(r.travel_date)
        form_date == 10000 * form.travel_date.year
                         + 100 * form.travel_date.month + form.travel_date.day
    IN  \/ row_date > form_date
        \/ /\ row_date = form_date
           /\ MinuteOfDay(r.travel_time)
                  > 60 * form.travel_time.hour + form.travel_time.minute

\* The row (without its id) is the entry the form describes.
IsEntryOf(row, form) ==
    /\ IsIsoDate(row.travel_date, form.travel_date)
    /\ IsHourMinute(row.travel_time, form.travel_time)
    /\ row.route_name = Trimmed(form.route_name)
    /\ row.duration_minutes = form.duration_minutes
    /\ row.notes = Trimmed(form.notes)

(* C1. A submission of the commute form whose route name is empty or all   *)
(* whitespace inserts nothing: commute_logs is the same before and after,  *)
(* a warning is shown and nothing is raised, whatever the table holds and  *)
(* whatever the other fields are.                                          *)
C1_BlankRouteRejected ==
    [][\/ /\ table' = table
          /\ feedback' = "warning"
          /\ fault' = "none"
       \/ \A form \in Forms, now \in Clock :
              ~(AllWhitespace(form.route_name) /\ CommuteSubmit(form, now))
      ]_vars

C1_Witness ==
    /\ feedback = "warning"
    /\ view = "commute"
    /\ Len(table) >= 1

(* C5. Every row of commute_logs has duration_minutes >= 1 and a non-empty *)
(* route_name without leading or trailing whitespace, and notes without    *)
(* leading or trailing whitespace.                                         *)
C5_RowsWellFormed ==
    \A i \in 1..Len(table) :
        /\ table[i].duration_minutes >= 1
        /\ table[i].route_name # << >>
        /\ NoOuterWhitespace(table[i].route_name)
        /\ NoOuterWhitespace(table[i].notes)
        /\ \E form \in Forms :
               /\ table[i].route_name = Trimmed(form.route_name)
               /\ table[i].notes = Trimmed(form.notes)

C5_Witness ==
    /\ Len(table) >= 2
    /\ \E i \in 1..Len(table) : table[i].duration_minutes = 1
    /\ \E i \in 1..Len(table) : table[i].route_name = <<"A">>
    /\ \E i \in 1..Len(table) : table[i].notes = <<"n">>

(* C7. After a valid submission made when no stored row has a later        *)
(* (travel_date, travel_time) than the submitted one, ties included,       *)
(* list_recent(1) returns exactly one row and it is the entry just         *)
(* submitted: its date, HH:MM time, trimmed route name, duration and       *)
(* trimmed notes.                                                          *)
C7_LatestSubmissionListedFirst ==
    [][\A form \in Forms, now \in Clock :
          (/\ ~AllWhitespace(form.route_name)
           /\ \A i \in 1..Len(table) : ~LaterThanForm(table[i], form)
           /\ CommuteSubmit(form, now))
          => LET recent == fetch_commute_logs(table', 1)
             IN  /\ Len(table') = Len(table) + 1
                 /\ Len(recent) = 1
                 /\ IsEntryOf(recent[1], form)
                 /\ recent[1] = log_columns(Last(table'))
                 /\ logs'[1] = recent[1]
      ]_vars

\* The last submission tied with an older row on date and time, which stored
\* another route, and is listed first.
C7_Witness ==
    /\ feedback = "success"
    /\ Len(table) >= 2
    /\ \E i \in 1..(Len(table) - 1) :
           /\ table[i].travel_date = Last(table).travel_date
           /\ table[i].travel_time = Last(table).travel_time
           /\ table[i].route_name # Last(table).route_name
    /\ logs[1] = log_columns(Last(table))

-----------------------------------------------------------------------------
(* The queries' and the export's properties.                               *)

Min(a, b) == IF a <= b THEN a ELSE b

\* Row r1 precedes row r2 in the listing: the later date first, then the
\* later time, then the larger id.
ListedBefore(r1, r2) ==
    LET d1 == DateNumber(r1.travel_date)
        d2 == DateNumber(r2.travel_date)
        m1 == MinuteOfDay(r1.travel_time)
        m2 == MinuteOfDay(r2.travel_time)
    IN  \/ d1 > d2
        \/ d1 = d2 /\ m1 > m2
        \/ d1 = d2 /\ m1 = m2 /\ r1.id > r2.id

\* The number of stored rows that precede row j of the table in the listing.
Rank(j) ==
    Cardinality({m \in 1..Len(table) : ListedBefore(table[m], table[j])})

SameColumns(log, r) ==
    /\ DOMAIN log = {Columns[k] : k \in 1..Len(Columns)}
    /\ \A k \in 1..Len(Columns) : log[Columns[k]] = r[Columns[k]]

ListedCorrectly ==
    /\ Len(logs) = Min(limit, Len(table))
    /\ \A i \in 1..Len(logs) :
           \E j \in 1..Len(table) : Rank(j) = i - 1 /\ SameColumns(logs[i], table[j])

RECURSIVE SumMinutes(_)
SumMinutes(rows) ==
    IF rows = {} THEN 0
    ELSE LET i == CHOOSE i \in rows : TRUE
         IN  table[i].duration_minutes + SumMinutes(rows \ {i})

RowsOf(route_name) == {i \in 1..Len(table) : table[i].route_name = route_name}

\* avg_minutes is held in tenths: 400 stands for 40.0.
SummarizedCorrectly ==
    /\ \A i \in 1..Len(table) :
           Cardinality({k \in 1..Len(summary) :
                           summary[k].route_name = table[i].route_name}) = 1
    /\ \A k \in 1..Len(summary) :
           LET rows == RowsOf(summary[k].route_name)
               trips == Cardinality(rows)
               total == SumMinutes(rows)
               off == summary[k].avg_minutes * trips - 10 * total
           IN  /\ trips >= 1
               /\ summary[k].trips = trips
               /\ summary[k].total_minutes = total
               /\ 2 * off <= trips /\ -2 * off <= trips
    /\ \A k \in 1..(Len(summary) - 1) :
           \/ summary[k].total_minutes > summary[k + 1].total_minutes
           \/ /\ summary[k].total_minutes = summary[k + 1].total_minutes
              /\ summary[k].trips >= summary[k + 1].trips
    /\ (/\ Len(table) = 3
        /\ \E i, j, k \in 1..3 :
               /\ {i, j, k} = {1, 2, 3}
               /\ table[i].route_name = <<"R", "o", "u", "t", "e", "A">> /\ table[i].duration_minutes = 30
               /\ table[j].route_name = <<"R", "o", "u", "t", "e", "A">> /\ table[j].duration_minutes = 50
               /\ table[k].route_name = <<"R", "o", "u", "t", "e", "B">> /\ table[k].duration_minutes = 20)
       => summary =
              << [route_name |-> <<"R", "o", "u", "t", "e", "A">>, trips |-> 2, total_minutes |-> 80,
                  avg_minutes |-> 400],
                 [route_name |-> <<"R", "o", "u", "t", "e", "B">>, trips |-> 1, total_minutes |-> 20,
                  avg_minutes |-> 200] >>

(* C8. summarize() returns exactly one RouteSummary per distinct route     *)
(* name over all stored rows, with trips the number of its rows,           *)
(* total_minutes the sum of their durations and avg_minutes their mean     *)
(* rounded to one decimal, ordered by total_minutes descending, then trips *)
(* descending; {(RouteA,30),(RouteA,50),(RouteB,20)} gives                 *)
(* RouteA (2, 80, 40.0) before RouteB (1, 20, 20.0).                       *)
C8_SummaryAggregates == [][SummarizedCorrectly']_vars

\* Two routes with a mean that is not a whole number of tenths.
C8_Witness ==
    /\ Len(table) = 3
    /\ Len(summary) = 2
    /\ summary[1].trips = 2
    /\ summary[1].total_minutes = 50
    /\ summary[2].trips = 1
    /\ summary[2].total_minutes = 50

SixColumns ==
    <<"t", "r", "a", "v", "e", "l", "_", "d", "a", "t", "e", ",", "t", "r", "a", "v", "e", "l", "_", "t", "i", "m", "e", ",", "r", "o", "u", "t", "e", "_", "n", "a", "m", "e", ",", "d", "u", "r", "a", "t", "i", "o", "n", "_", "m", "i", "n", "u", "t", "e", "s", ",", "n", "o", "t", "e", "s", ",", "c", "r", "e", "a", "t", "e", "d", "_", "a", "t">>

\* value with every comma and every newline replaced by a space.
Sanitized(value) ==
    [j \in 1..Len(value) |-> IF value[j] \in {",", "\n"} THEN " " ELSE value[j]]

IsDecimalOf(text, n) ==
    /\ text # << >>
    /\ \A j \in 1..Len(text) : IsDigit(text[j])
    /\ Len(text) > 1 => text[1] # "0"
    /\ ParseNat(text) = n

ExportedCorrectly ==
    \A lines \in {Split(csv_data, "\n")} :
        /\ Len(lines) = 1 + Len(logs)
        /\ lines[1] = SixColumns
        /\ \A i \in 1..Len(logs) :
               \A fields \in {Split(lines[i + 1], ",")} :
                   /\ Len(fields) = 6
                   /\ fields[1] = Sanitized(logs[i].travel_date)
                   /\ fields[2] = Sanitized(logs[i].travel_time)
                   /\ fields[3] = Sanitized(logs[i].route_name)
                   /\ IsDecimalOf(fields[4], logs[i].duration_minutes)
                   /\ fields[5] = Sanitized(logs[i].notes)
                   /\ fields[6] = Sanitized(logs[i].created_at)
                   /\ logs[i].notes = <<"a", ",", "b", "\n", "c">> => fields[5] = <<"a", " ", "b", " ", "c">>

(* C10. export_csv returns the header line                                 *)
(* travel_date,travel_time,route_name,duration_minutes,notes,created_at    *)
(* and then one line per row in the given order, the six values in header  *)
(* order joined by commas after every newline and comma inside a value was *)
(* replaced by a space: every line has six comma-separated fields, and the *)
(* notes "a,b\nc" are rendered "a b c".                                    *)
C10_CsvLinesSanitized == [][ExportedCorrectly']_vars

C10_Witness ==
    /\ csv_data # None
    /\ Len(logs) = 2
    /\ logs[1].notes = <<"a", ",", "b", "\n", "c">>
    /\ logs[2].route_name = <<"A", ",", "B">>
    /\ logs[2].notes = <<"x", "\n", ",", "\n", "y">>

====
